---- MODULE Spec2Model ----
(***************************************************************************)
(* Test-stand firmware (src/src/main.cpp): the sequencer                   *)
(* STARTUP -> READY_FOR_COUNTDOWN -> COUNTDOWN -> TEST_ACTIVE -> POST_TEST *)
(* (or ERROR), the polled fixed-rate main loop, and the level-triggered    *)
(* button interrupt whose handler arms the test.                           *)
(*                                                                         *)
(* The main program is modelled statement by statement (pc), because the   *)
(* interrupt handler may run between any two of its statements.  The       *)
(* handler is an entry step and the name search of CreateLogFile, one step *)
(* per draw (isrPc); the main program never runs inside it.                *)
(*                                                                         *)
(* Time.  `now` is the uptime in clock quanta; millis() returns it modulo  *)
(* 2^MillisBits (the 32-bit counter of the firmware, narrowed here), and   *)
(* the 64-bit globals that store timestamps are narrowed to WideBits.  A   *)
(* second has MillisPerSecond quanta (1000 in the firmware).  The float    *)
(* quotients elapsed / 1000.f are kept as their integer numerators: for    *)
(* the firmware's limits the float comparison and the integer comparison   *)
(* of the numerators agree.                                                *)
(***************************************************************************)
EXTENDS Integers, Sequences, FiniteSets, TLC

\* ---------------------------------------------------------------- bounds
\* width of the value millis() returns (32 in the firmware)
MillisBits == 3
\* width of CountdownActivatedTime, TestActivatedTime, MainLoopPrev (64)
WideBits == 6
\* clock quanta per second (the literal 1000.f of lines 236, 254, 351)
MillisPerSecond == 2
\* the user-configurable test parameters (lines 22-24), instantiated small
TEST_DATA_SAMPLE_RATE == 1
TEST_COUNTDOWN_SECONDS == 2
TEST_DURATION_SECONDS == 1
\* the uptime explored beyond one wrap of millis()
UptimeSlack == 4
\* the longest single advance of the clock between two steps
MaxAdvance == 3
\* the range of random() in CreateLogFile (the literal 100 of lines 289, 292)
RandomRange == 2

\* ------------------------------------------------------ program constants
\* line 257: Countdown = TestDuration + 15
DisplayOffsetSeconds == 15
\* lines 82-83: the initialiser 10^10 is a bitwise XOR, i.e. 0
InitialTimestamp == 0

MillisModulus == 2 ^ MillisBits
WideModulus == 2 ^ WideBits
MaxUptime == MillisModulus + UptimeSlack

\* E_OPERATION_STATE, lines 31-38
STARTUP == "STARTUP"
ERROR == "ERROR"
READY_FOR_COUNTDOWN == "READY_FOR_COUNTDOWN"
COUNTDOWN == "COUNTDOWN"
TEST_ACTIVE == "TEST_ACTIVE"
POST_TEST == "POST_TEST"
E_OPERATION_STATE ==
  {STARTUP, ERROR, READY_FOR_COUNTDOWN, COUNTDOWN, TEST_ACTIVE, POST_TEST}

\* the two levels of a digital pin
LOW == "LOW"
HIGH == "HIGH"

VARIABLES
  OPERATION_STATE,         \* line 39
  CountdownActivatedTime,  \* line 82
  TestActivatedTime,       \* line 83
  Countdown,               \* line 84, as a number of clock quanta
  TestDuration,            \* line 85, as a number of clock quanta
  ThermistorData,          \* line 88
  LoadCellForceData,       \* line 89
  ErrorLog,                \* line 102, the appended messages in order
  MainLoopPrev,            \* line 105
  fileOpen,                \* File (line 93) is open
  relayPin,                \* level driven on GPIO_RELAY_TOGGLE
  ledPin,                  \* level driven on GPIO_LED_TEST_ACTIVE
  attached,                \* attachInterrupt (line 149) has run
  pc,                      \* next statement of setup() / loop()
  dispatched,              \* the case the switch of line 355 selected
  now,                     \* uptime in clock quanta
  countdownAt,             \* uptime at which CountdownActivatedTime was read
  testAt,                  \* uptime at which TestActivatedTime was read
  baselineAt,              \* uptime at which MainLoopPrev was read
  displayed,               \* the state and force the display last drew
  fresh,                   \* LoadCell.update() of this tick (line 328)
  tickTransitions,         \* changes of OPERATION_STATE during this tick
  isrPc,                   \* where the interrupt handler stands, or "idle"
  existing,                \* the log-file numbers present on the card
  sdPresent,               \* Sd.begin() succeeds (line 115)
  tareTimeout,             \* LoadCell.getTareTimeoutFlag() (line 128)
  ctx,                     \* who took the last step: "main", "isr", "clock"
  io                       \* the external calls of the last step, in order

vars ==
  << OPERATION_STATE, CountdownActivatedTime, TestActivatedTime, Countdown,
     TestDuration, ThermistorData, LoadCellForceData, ErrorLog, MainLoopPrev,
     fileOpen,
     relayPin, ledPin, attached, pc, dispatched, now, countdownAt, testAt,
     baselineAt, displayed, fresh, tickTransitions, isrPc, existing,
     sdPresent, tareTimeout, ctx, io >>

\* the sequencer's globals
seqVars ==
  << OPERATION_STATE, CountdownActivatedTime, TestActivatedTime, Countdown,
     TestDuration, ErrorLog, fileOpen, relayPin, ledPin >>

\* the abstract force reading LoadCell.getData() / 100000.f gives; the
\* variable starts at 0, so the first new value is told from none
Readings == {1}
\* the abstract temperature ReadThermistor (lines 316-324) returns
Temperatures == {25}

\* the numbers random(100) can return (lines 289, 292)
FileNumbers == 0 .. RandomRange - 1

\* the cards tried: every name taken, and every name but number 0 taken
CardContents == {FileNumbers, FileNumbers \ {0}}

\* millis(): the free-running counter, which wraps
millis == now % MillisModulus

\* a - b in the unsigned wide type: millis() - CountdownActivatedTime etc.
SubWide(a, b) == (a - b + WideModulus) % WideModulus

\* 1000.f / TEST_DATA_SAMPLE_RATE <= d, without the division
IntervalElapsed(d) == d * TEST_DATA_SAMPLE_RATE >= MillisPerSecond

CountdownLimit == TEST_COUNTDOWN_SECONDS * MillisPerSecond
DurationLimit == TEST_DURATION_SECONDS * MillisPerSecond

\* the state when setup() is entered: globals zero- or constant-initialised,
\* output latches at their reset level
Init ==
  /\ OPERATION_STATE = STARTUP
  /\ CountdownActivatedTime = InitialTimestamp
  /\ TestActivatedTime = InitialTimestamp
  /\ Countdown = CountdownLimit
  /\ TestDuration = DurationLimit
  /\ ThermistorData = << 0, 0 >>
  /\ LoadCellForceData = 0
  /\ ErrorLog = << >>
  /\ MainLoopPrev = 0
  /\ fileOpen = FALSE
  /\ relayPin = LOW
  /\ ledPin = LOW
  /\ attached = FALSE
  /\ pc = "InitGPIO"
  /\ dispatched = "none"
  /\ now = 0
  /\ countdownAt = 0
  /\ testAt = 0
  /\ baselineAt = 0
  /\ displayed = << >>
  /\ fresh = FALSE
  /\ tickTransitions = 0
  /\ isrPc = "idle"
  /\ existing \in CardContents
  /\ sdPresent \in BOOLEAN
  /\ tareTimeout \in BOOLEAN
  /\ ctx = "main"
  /\ io = << >>

\* a step of the main program: moves pc, records its external calls; the
\* main program does not run while the interrupt handler does
Main(next, calls) ==
  /\ isrPc = "idle"
  /\ pc' = next
  /\ ctx' = "main"
  /\ io' = calls
  /\ UNCHANGED << now, isrPc, existing, sdPresent, tareTimeout >>

\* the uptimes remembered beside the three stored clock readings
stamps == << countdownAt, testAt, baselineAt >>

\* lines 300-305: the level ToggleRelay(Status) writes
RelayLevel(Status) == IF Status = FALSE THEN HIGH ELSE LOW

\* ToggleRelay, lines 298-306
ToggleRelay(Status) == relayPin' = RelayLevel(Status)

\* ---------------------------------------------------------------- setup()
\* lines 142-150; no digitalWrite: the output pins keep their reset level
InitGPIO ==
  /\ pc = "InitGPIO"
  /\ attached' = TRUE
  /\ Main("InitRecorder", << "pinMode", "attachInterrupt" >>)
  /\ UNCHANGED << seqVars, ThermistorData, LoadCellForceData, MainLoopPrev,
                  dispatched >>
  /\ UNCHANGED stamps
  /\ UNCHANGED << displayed, fresh, tickTransitions >>

\* lines 113-121
InitRecorder ==
  /\ pc = "InitRecorder"
  /\ IF ~sdPresent
       THEN /\ OPERATION_STATE' = ERROR
            /\ ErrorLog' = Append(ErrorLog, "SD-CARD NOT FOUND | ")
       ELSE UNCHANGED << OPERATION_STATE, ErrorLog >>
  /\ Main("InitLoadCell", << "Sd.begin" >>)
  /\ UNCHANGED << CountdownActivatedTime, TestActivatedTime, Countdown,
                  TestDuration, fileOpen, relayPin, ledPin, ThermistorData,
                  LoadCellForceData, MainLoopPrev, dispatched, attached >>
  /\ UNCHANGED stamps
  /\ UNCHANGED << displayed, fresh, tickTransitions >>

\* lines 123-135
InitLoadCell ==
  /\ pc = "InitLoadCell"
  /\ IF tareTimeout
       THEN /\ OPERATION_STATE' = ERROR
            /\ ErrorLog' = Append(ErrorLog, "LOAD CELL TARE UNSUCESSFUL | ")
       ELSE UNCHANGED << OPERATION_STATE, ErrorLog >>
  /\ Main("InitDisplay",
          << "LoadCell.begin", "LoadCell.start", "LoadCell.getTareTimeoutFlag",
             "LoadCell.setCalFactor" >>)
  /\ UNCHANGED << CountdownActivatedTime, TestActivatedTime, Countdown,
                  TestDuration, fileOpen, relayPin, ledPin, ThermistorData,
                  LoadCellForceData, MainLoopPrev, dispatched, attached >>
  /\ UNCHANGED stamps
  /\ UNCHANGED << displayed, fresh, tickTransitions >>

\* lines 137-140: the result of Display.begin() is discarded
InitDisplay ==
  /\ pc = "InitDisplay"
  /\ Main("SetupCheck", << "Display.begin" >>)
  /\ UNCHANGED << seqVars, ThermistorData, LoadCellForceData, MainLoopPrev,
                  dispatched, attached >>
  /\ UNCHANGED stamps
  /\ UNCHANGED << displayed, fresh, tickTransitions >>

\* a startup check that arms the stand although a fault was recorded
StartupSucceeded_AfterFault == OPERATION_STATE \in {STARTUP, ERROR}

\* a startup check that takes any state for a successful startup
StartupSucceeded_Always == TRUE

\* line 343: the condition under which setup() arms the stand
StartupSucceeded ==
  OPERATION_STATE = STARTUP /\ OPERATION_STATE # ERROR

\* lines 342-346
SetupCheck ==
  /\ pc = "SetupCheck"
  /\ OPERATION_STATE' =
       IF StartupSucceeded THEN READY_FOR_COUNTDOWN ELSE OPERATION_STATE
  /\ Main("loop", << >>)
  /\ UNCHANGED << CountdownActivatedTime, TestActivatedTime, Countdown,
                  TestDuration, ErrorLog, fileOpen, relayPin, ledPin,
                  ThermistorData, LoadCellForceData, MainLoopPrev, dispatched,
                  attached >>
  /\ UNCHANGED stamps
  /\ UNCHANGED << displayed, fresh, tickTransitions >>

\* ----------------------------------------------------------------- loop()
\* line 351: millis() - MainLoopPrev >= 1000.f / TEST_DATA_SAMPLE_RATE
TickDue == IntervalElapsed(SubWide(millis, MainLoopPrev))

\* line 351: one poll of the scheduler condition
LoopPoll ==
  /\ pc = "loop"
  /\ Main(IF TickDue THEN "DisplayRenderData" ELSE "loop", << "millis" >>)
  /\ UNCHANGED << seqVars, ThermistorData, LoadCellForceData, MainLoopPrev,
                  dispatched, attached >>
  /\ UNCHANGED stamps
  /\ UNCHANGED << displayed, fresh, tickTransitions >>

\* line 353 (lines 190-220): draws the globals, writes none
DisplayRenderData ==
  /\ pc = "DisplayRenderData"
  /\ displayed' = << OPERATION_STATE, LoadCellForceData >>
  /\ Main("switch", << "Display.render" >>)
  /\ UNCHANGED << seqVars, ThermistorData, LoadCellForceData, MainLoopPrev,
                  dispatched, attached >>
  /\ UNCHANGED stamps
  /\ UNCHANGED << fresh, tickTransitions >>

\* the states that have a case in the switch of lines 355-384
HasCase(s) == s \in {READY_FOR_COUNTDOWN, COUNTDOWN, TEST_ACTIVE, POST_TEST}

\* line 355: the switch reads OPERATION_STATE once and selects a case
Switch ==
  /\ pc = "switch"
  /\ IF HasCase(OPERATION_STATE)
       THEN /\ dispatched' = OPERATION_STATE
            /\ Main("GetThermistorData", << >>)
       ELSE /\ dispatched' = "default"
            /\ Main("stamp", << >>)
  /\ UNCHANGED << seqVars, ThermistorData, LoadCellForceData, MainLoopPrev,
                  attached >>
  /\ UNCHANGED stamps
  /\ UNCHANGED << displayed, fresh, tickTransitions >>

\* lines 308-312
GetThermistorData ==
  /\ pc = "GetThermistorData"
  /\ \E t1 \in Temperatures, t2 \in Temperatures :
       ThermistorData' = << t1, t2 >>
  /\ Main("GetLoadCellData", << "analogRead", "analogRead" >>)
  /\ UNCHANGED << seqVars, LoadCellForceData, MainLoopPrev, dispatched,
                  attached >>
  /\ UNCHANGED stamps
  /\ UNCHANGED << displayed, fresh, tickTransitions >>

\* a loop that logs in every case of the switch
LogsData_All(s) == HasCase(s)

\* the cases that log and evaluate a limit (lines 363-375)
LogsData(s) == s \in {COUNTDOWN, TEST_ACTIVE}

\* lines 326-332: the sample is replaced only when update() reports new data
GetLoadCellData ==
  /\ pc = "GetLoadCellData"
  /\ \E newData \in BOOLEAN, v \in Readings :
       /\ fresh' = newData
       /\ LoadCellForceData' = IF newData THEN v ELSE LoadCellForceData
       /\ Main(IF LogsData(dispatched) THEN "LogTestData" ELSE "stamp",
               IF newData THEN << "LoadCell.update", "LoadCell.getData" >>
                          ELSE << "LoadCell.update" >>)
  /\ UNCHANGED << seqVars, ThermistorData, MainLoopPrev, dispatched,
                  attached >>
  /\ UNCHANGED stamps
  /\ UNCHANGED << displayed, tickTransitions >>

\* lines 271-285: one record, whether or not the sample is new
LogTestData ==
  /\ pc = "LogTestData"
  /\ Main("Detect", << "millis", "File.printf", "File.sync" >>)
  /\ UNCHANGED << seqVars, ThermistorData, LoadCellForceData, MainLoopPrev,
                  dispatched, attached >>
  /\ UNCHANGED stamps
  /\ UNCHANGED << displayed, fresh, tickTransitions >>

\* a countdown that ends only on the tick that reads the limit exactly
CountdownRunning_Exact(elapsed) == elapsed # CountdownLimit

\* line 238: Countdown < TEST_COUNTDOWN_SECONDS, on the numerator
CountdownRunning(elapsed) == elapsed < CountdownLimit

\* lines 232-240, up to the call of BeginTest
DetectCountdownEnd ==
  /\ pc = "Detect"
  /\ dispatched = COUNTDOWN
  /\ IF OPERATION_STATE # COUNTDOWN
       THEN /\ Main("stamp", << >>)
            /\ UNCHANGED Countdown
       ELSE /\ Countdown' = SubWide(millis, CountdownActivatedTime)
            /\ Main(IF CountdownRunning(Countdown') THEN "stamp"
                                                   ELSE "BeginTest",
                    << "millis" >>)
  /\ UNCHANGED << OPERATION_STATE, CountdownActivatedTime, TestActivatedTime,
                  TestDuration, ErrorLog, fileOpen, relayPin, ledPin,
                  ThermistorData, LoadCellForceData, MainLoopPrev, dispatched,
                  attached >>
  /\ UNCHANGED stamps
  /\ UNCHANGED << displayed, fresh, tickTransitions >>

\* line 244
BeginTest_time ==
  /\ pc = "BeginTest"
  /\ TestActivatedTime' = millis
  /\ testAt' = now
  /\ Main("BeginTest_state", << "millis" >>)
  /\ UNCHANGED << OPERATION_STATE, CountdownActivatedTime, Countdown,
                  TestDuration, ErrorLog, fileOpen, relayPin, ledPin,
                  ThermistorData, LoadCellForceData, MainLoopPrev, dispatched,
                  attached >>
  /\ UNCHANGED << countdownAt, baselineAt >>
  /\ UNCHANGED << displayed, fresh, tickTransitions >>

\* line 245
BeginTest_state ==
  /\ pc = "BeginTest_state"
  /\ OPERATION_STATE' = TEST_ACTIVE
  /\ tickTransitions' = tickTransitions + 1
  /\ Main("BeginTest_relay", << >>)
  /\ UNCHANGED << CountdownActivatedTime, TestActivatedTime, Countdown,
                  TestDuration, ErrorLog, fileOpen, relayPin, ledPin,
                  ThermistorData, LoadCellForceData, MainLoopPrev, dispatched,
                  attached >>
  /\ UNCHANGED stamps
  /\ UNCHANGED << displayed, fresh >>

\* line 247
BeginTest_relay ==
  /\ pc = "BeginTest_relay"
  /\ ToggleRelay(TRUE)
  /\ Main("stamp", << "ToggleRelay(true)" >>)
  /\ UNCHANGED << OPERATION_STATE, CountdownActivatedTime, TestActivatedTime,
                  Countdown, TestDuration, ErrorLog, fileOpen, ledPin,
                  ThermistorData, LoadCellForceData, MainLoopPrev, dispatched,
                  attached >>
  /\ UNCHANGED stamps
  /\ UNCHANGED << displayed, fresh, tickTransitions >>

\* line 259: TestDuration < TEST_DURATION_SECONDS, on the numerator
TestRunning(elapsed) == elapsed < DurationLimit

\* lines 250-261, up to the call of EndTest
DetectTestEnd ==
  /\ pc = "Detect"
  /\ dispatched = TEST_ACTIVE
  /\ IF OPERATION_STATE # TEST_ACTIVE
       THEN /\ Main("stamp", << >>)
            /\ UNCHANGED << TestDuration, Countdown >>
       ELSE /\ TestDuration' = SubWide(millis, TestActivatedTime)
            /\ Countdown' = TestDuration' + DisplayOffsetSeconds * MillisPerSecond
            /\ Main(IF TestRunning(TestDuration') THEN "stamp" ELSE "EndTest",
                    << "millis" >>)
  /\ UNCHANGED << OPERATION_STATE, CountdownActivatedTime, TestActivatedTime,
                  ErrorLog, fileOpen, relayPin, ledPin, ThermistorData,
                  LoadCellForceData, MainLoopPrev, dispatched, attached >>
  /\ UNCHANGED stamps
  /\ UNCHANGED << displayed, fresh, tickTransitions >>

\* line 265
EndTest_state ==
  /\ pc = "EndTest"
  /\ OPERATION_STATE' = POST_TEST
  /\ tickTransitions' = tickTransitions + 1
  /\ Main("EndTest_led", << >>)
  /\ UNCHANGED << CountdownActivatedTime, TestActivatedTime, Countdown,
                  TestDuration, ErrorLog, fileOpen, relayPin, ledPin,
                  ThermistorData, LoadCellForceData, MainLoopPrev, dispatched,
                  attached >>
  /\ UNCHANGED stamps
  /\ UNCHANGED << displayed, fresh >>

\* line 266
EndTest_led ==
  /\ pc = "EndTest_led"
  /\ ledPin' = LOW
  /\ Main("EndTest_close", << "digitalWrite(LED,LOW)" >>)
  /\ UNCHANGED << OPERATION_STATE, CountdownActivatedTime, TestActivatedTime,
                  Countdown, TestDuration, ErrorLog, fileOpen, relayPin,
                  ThermistorData, LoadCellForceData, MainLoopPrev, dispatched,
                  attached >>
  /\ UNCHANGED stamps
  /\ UNCHANGED << displayed, fresh, tickTransitions >>

\* line 267 (CloseLogFile, lines 227-230)
EndTest_close ==
  /\ pc = "EndTest_close"
  /\ fileOpen' = FALSE
  /\ Main("EndTest_relay", << "File.close" >>)
  /\ UNCHANGED << OPERATION_STATE, CountdownActivatedTime, TestActivatedTime,
                  Countdown, TestDuration, ErrorLog, relayPin, ledPin,
                  ThermistorData, LoadCellForceData, MainLoopPrev, dispatched,
                  attached >>
  /\ UNCHANGED stamps
  /\ UNCHANGED << displayed, fresh, tickTransitions >>

\* line 268
EndTest_relay ==
  /\ pc = "EndTest_relay"
  /\ ToggleRelay(FALSE)
  /\ Main("stamp", << "ToggleRelay(false)" >>)
  /\ UNCHANGED << OPERATION_STATE, CountdownActivatedTime, TestActivatedTime,
                  Countdown, TestDuration, ErrorLog, fileOpen, ledPin,
                  ThermistorData, LoadCellForceData, MainLoopPrev, dispatched,
                  attached >>
  /\ UNCHANGED stamps
  /\ UNCHANGED << displayed, fresh, tickTransitions >>

\* line 385: the baseline of the next tick is the clock read after the body
Stamp ==
  /\ pc = "stamp"
  /\ MainLoopPrev' = millis
  /\ baselineAt' = now
  /\ dispatched' = "none"
  /\ fresh' = FALSE
  /\ tickTransitions' = 0
  /\ Main("loop", << "millis" >>)
  /\ UNCHANGED << seqVars, ThermistorData, LoadCellForceData, attached >>
  /\ UNCHANGED << countdownAt, testAt >>
  /\ UNCHANGED displayed

\* ------------------------------------------------------- interrupt handler
\* a handler that returns early only in ERROR
ArmAccepted_UnlessError == OPERATION_STATE # ERROR

\* line 154: the handler goes on only in READY_FOR_COUNTDOWN
ArmAccepted == OPERATION_STATE = READY_FOR_COUNTDOWN

\* lines 351-386: the main program is inside the body of a tick
InTick ==
  pc \notin {"InitGPIO", "InitRecorder", "InitLoadCell", "InitDisplay",
             "SetupCheck", "loop"}

\* what a step of the handler leaves alone
isrFrame ==
  << ThermistorData, LoadCellForceData, MainLoopPrev, attached, pc,
     dispatched, now, testAt, baselineAt, sdPresent, tareTimeout >>

\* lines 152-160: the guard, the LED and the countdown-start time
InterruptEntry ==
  /\ attached
  /\ isrPc = "idle"
  /\ ctx' = "isr"
  /\ IF ~ArmAccepted
       THEN /\ io' = << >>
            /\ UNCHANGED << seqVars, countdownAt, isrPc >>
       ELSE /\ ledPin' = HIGH
            /\ CountdownActivatedTime' = millis
            /\ countdownAt' = now
            /\ isrPc' = "CreateLogFile"
            /\ io' = << "digitalWrite(LED,HIGH)", "millis" >>
            /\ UNCHANGED << OPERATION_STATE, TestActivatedTime, Countdown,
                            TestDuration, ErrorLog, fileOpen, relayPin >>
  /\ UNCHANGED << isrFrame, existing >>
  /\ UNCHANGED << displayed, fresh, tickTransitions >>

\* lines 289-293: a drawn name that exists already; the loop draws again
CreateLogFile_taken ==
  /\ isrPc = "CreateLogFile"
  /\ \E r \in FileNumbers : r \in existing
  /\ ctx' = "isr"
  /\ io' = << "random", "Sd.exists" >>
  /\ UNCHANGED << seqVars, countdownAt, isrPc, isrFrame, existing >>
  /\ UNCHANGED << displayed, fresh, tickTransitions >>

\* lines 289-295 and 162-170: a drawn name that is free ends the loop;
\* `opened` is the result of File.open.  CreateTelemetryString (173-179)
\* is called whatever File.open returned.
CreateLogFile_free ==
  /\ isrPc = "CreateLogFile"
  /\ \E r \in FileNumbers \ existing, opened \in BOOLEAN :
       /\ fileOpen' = opened
       /\ existing' = IF opened THEN existing \cup {r} ELSE existing
       /\ IF ~opened
            THEN /\ OPERATION_STATE' = ERROR
                 /\ ErrorLog' = Append(ErrorLog, "STARTUP NOT SUCESSFUL | ")
            ELSE /\ OPERATION_STATE' = COUNTDOWN
                 /\ UNCHANGED ErrorLog
  /\ tickTransitions' = IF InTick THEN tickTransitions + 1 ELSE tickTransitions
  /\ isrPc' = "idle"
  /\ ctx' = "isr"
  /\ io' = << "random", "Sd.exists", "File.open", "File.printf",
              "File.sync" >>
  /\ UNCHANGED << CountdownActivatedTime, TestActivatedTime, Countdown,
                  TestDuration, relayPin, ledPin, countdownAt, isrFrame >>
  /\ UNCHANGED << displayed, fresh >>

\* lines 152-171, with CreateLogFile (287-296)
InterruptTestStartCommand ==
  \/ InterruptEntry
  \/ CreateLogFile_taken
  \/ CreateLogFile_free

\* ------------------------------------------------------------------ clock
\* time passes between any two steps
Advance ==
  /\ \E d \in 1 .. MaxAdvance :
       /\ now + d <= MaxUptime
       /\ now' = now + d
  /\ ctx' = "clock"
  /\ io' = << >>
  /\ UNCHANGED << seqVars, ThermistorData, LoadCellForceData, MainLoopPrev,
                  attached, pc, dispatched, isrPc, existing, sdPresent,
                  tareTimeout >>
  /\ UNCHANGED stamps
  /\ UNCHANGED << displayed, fresh, tickTransitions >>

Next ==
  \/ InitGPIO
  \/ InitRecorder
  \/ InitLoadCell
  \/ InitDisplay
  \/ SetupCheck
  \/ LoopPoll
  \/ DisplayRenderData
  \/ Switch
  \/ GetThermistorData
  \/ GetLoadCellData
  \/ LogTestData
  \/ DetectCountdownEnd
  \/ BeginTest_time
  \/ BeginTest_state
  \/ BeginTest_relay
  \/ DetectTestEnd
  \/ EndTest_state
  \/ EndTest_led
  \/ EndTest_close
  \/ EndTest_relay
  \/ Stamp
  \/ InterruptTestStartCommand
  \/ Advance

Spec == Init /\ [][Next]_vars

\* ------------------------------------------------- ticks that keep firing
\* the statements of setup() and loop()
MainProgram ==
  \/ InitGPIO
  \/ InitRecorder
  \/ InitLoadCell
  \/ InitDisplay
  \/ SetupCheck
  \/ LoopPoll
  \/ DisplayRenderData
  \/ Switch
  \/ GetThermistorData
  \/ GetLoadCellData
  \/ LogTestData
  \/ DetectCountdownEnd
  \/ BeginTest_time
  \/ BeginTest_state
  \/ BeginTest_relay
  \/ DetectTestEnd
  \/ EndTest_state
  \/ EndTest_led
  \/ EndTest_close
  \/ EndTest_relay
  \/ Stamp

\* line 351: time passes while loop() polls and no tick is due, so a tick is
\* late by less than MaxAdvance and its body takes no time; the uptime is
\* kept modulo the range of millis()
Wait ==
  /\ pc = "loop"
  /\ isrPc = "idle"
  /\ ~TickDue
  /\ \E d \in 1 .. MaxAdvance : now' = (now + d) % MillisModulus
  /\ ctx' = "clock"
  /\ io' = << >>
  /\ UNCHANGED << seqVars, ThermistorData, LoadCellForceData, MainLoopPrev,
                  attached, pc, dispatched, isrPc, existing, sdPresent,
                  tareTimeout >>
  /\ UNCHANGED stamps
  /\ UNCHANGED << displayed, fresh, tickTransitions >>

NextLive ==
  \/ MainProgram
  \/ InterruptTestStartCommand
  \/ Wait

\* the main program keeps running and the clock keeps advancing; nothing is
\* assumed of the button
LiveSpec ==
  /\ Init
  /\ [][NextLive]_vars
  /\ WF_vars(MainProgram)
  /\ WF_vars(Wait)

\* ================================================================ claims
\* the calls of the step just taken
Called(c) == \E i \in 1 .. Len(io') : io'[i] = c

\* setup() has returned
AfterSetup ==
  pc \notin {"InitGPIO", "InitRecorder", "InitLoadCell", "InitDisplay",
             "SetupCheck"}

\* the main program is between two ticks (or before the first)
TickBoundary == pc = "loop"

\* C1: at every tick boundary, whenever OPERATION_STATE is not TEST_ACTIVE
\* the relay pin is at the level ToggleRelay(false) drives.
C1_RelayDisengagedOutsideTest ==
  (TickBoundary /\ OPERATION_STATE # TEST_ACTIVE) => relayPin = RelayLevel(FALSE)

\* C2: every step that enters ERROR makes the call ToggleRelay(false), and
\* the call ToggleRelay(true) is made only by the transition into
\* TEST_ACTIVE.
C2_FaultEntryDisengages ==
  [][ /\ (OPERATION_STATE # ERROR /\ OPERATION_STATE' = ERROR)
           => Called("ToggleRelay(false)")
      /\ Called("ToggleRelay(true)")
           => (pc = "BeginTest_relay" /\ OPERATION_STATE' = TEST_ACTIVE) ]_vars

\* C3: an arm event delivered in any state but READY_FOR_COUNTDOWN, at any
\* statement of the main program, changes neither the state, nor the
\* countdown-start time, nor the fault log, nor the log file, and makes no
\* call at all (no file is opened).
C3_ArmGuard ==
  [][ (ctx' = "isr" /\ OPERATION_STATE # READY_FOR_COUNTDOWN)
        => /\ UNCHANGED << OPERATION_STATE, CountdownActivatedTime, ErrorLog,
                           fileOpen >>
           /\ io' = << >> ]_vars

\* an arm event was discarded in the middle of a COUNTDOWN tick, the one
\* log file still open
C3_Witness ==
  /\ ctx = "isr"
  /\ io = << >>
  /\ OPERATION_STATE = COUNTDOWN
  /\ pc = "LogTestData"
  /\ fileOpen

\* the transitions of the claimed sequence, with the diversion to ERROR
SequenceStep(s, t) ==
  \/ s = STARTUP /\ t \in {READY_FOR_COUNTDOWN, ERROR}
  \/ s = READY_FOR_COUNTDOWN /\ t \in {COUNTDOWN, ERROR}
  \/ s = COUNTDOWN /\ t \in {TEST_ACTIVE, ERROR}
  \/ s = TEST_ACTIVE /\ t \in {POST_TEST, ERROR}

\* C4: every change of OPERATION_STATE goes one place forward in STARTUP,
\* READY_FOR_COUNTDOWN, COUNTDOWN, TEST_ACTIVE, POST_TEST or diverts to
\* ERROR; no state is revisited, and POST_TEST and ERROR are never left.
C4_MonotonicSequence ==
  [][ OPERATION_STATE' # OPERATION_STATE
        => SequenceStep(OPERATION_STATE, OPERATION_STATE') ]_vars

\* the whole sequence has been run through and an arm event has arrived
\* after it
C4_Witness ==
  /\ OPERATION_STATE = POST_TEST
  /\ relayPin = RelayLevel(FALSE)
  /\ ctx = "isr"
  /\ pc = "GetLoadCellData"

\* C5: a tick in COUNTDOWN whose elapsed countdown (the time since the
\* countdown-start time was taken) is below the configured length leaves
\* the state COUNTDOWN; the state leaves COUNTDOWN only for TEST_ACTIVE, only
\* with the elapsed countdown at or above the length and the test-start
\* time recorded, and the relay is engaged only after that.
C5_CountdownExpiry ==
  [][ /\ ( /\ ctx' = "main"
           /\ pc = "Detect"
           /\ dispatched = COUNTDOWN
           /\ OPERATION_STATE = COUNTDOWN
           /\ now - countdownAt < CountdownLimit )
        => (pc' = "stamp" /\ OPERATION_STATE' = COUNTDOWN)
      /\ (OPERATION_STATE = COUNTDOWN /\ OPERATION_STATE' # COUNTDOWN)
        => /\ OPERATION_STATE' = TEST_ACTIVE
           /\ now - countdownAt >= CountdownLimit
           /\ testAt - countdownAt >= CountdownLimit
      /\ Called("ToggleRelay(true)")
        => (OPERATION_STATE' = TEST_ACTIVE
              /\ now - countdownAt >= CountdownLimit) ]_vars

\* C6: a tick in TEST_ACTIVE whose elapsed test time (the time since
\* TEST_ACTIVE was entered) is below the configured length leaves the state
\* TEST_ACTIVE; the state leaves TEST_ACTIVE only for POST_TEST and only with
\* the elapsed test time at or above the length, and only then is the relay
\* disengaged and the log file closed.
C6_TestDurationExpiry ==
  [][ /\ ( /\ ctx' = "main"
           /\ pc = "Detect"
           /\ dispatched = TEST_ACTIVE
           /\ OPERATION_STATE = TEST_ACTIVE
           /\ now - testAt < DurationLimit )
        => (pc' = "stamp" /\ OPERATION_STATE' = TEST_ACTIVE)
      /\ (OPERATION_STATE = TEST_ACTIVE /\ OPERATION_STATE' # TEST_ACTIVE)
        => /\ OPERATION_STATE' = POST_TEST
           /\ now - testAt >= DurationLimit
      /\ (Called("ToggleRelay(false)") \/ Called("File.close"))
        => (OPERATION_STATE' = POST_TEST
              /\ now - testAt >= DurationLimit) ]_vars

\* C7: a step of the interrupt handler writes no sequencer global
\* (OPERATION_STATE, CountdownActivatedTime, ErrorLog, the log file handle)
\* and does no file I/O.
C7_HandlerOnlySetsFlag ==
  [][ ctx' = "isr"
        => /\ UNCHANGED << OPERATION_STATE, CountdownActivatedTime, ErrorLog,
                           fileOpen >>
           /\ ~Called("Sd.exists")
           /\ ~Called("File.open")
           /\ ~Called("File.printf")
           /\ ~Called("File.sync") ]_vars

\* the calls that operate a sensor
SensorCalls ==
  {"LoadCell.begin", "LoadCell.start", "LoadCell.getTareTimeoutFlag",
   "LoadCell.setCalFactor", "LoadCell.update", "LoadCell.getData",
   "analogRead"}

\* the calls that write to the log file
LogWriteCalls == {"File.printf", "File.sync"}

\* C8: once ErrorLog is non-empty the state is ERROR and stays ERROR, and no
\* later step, in setup() or in a tick, operates a sensor or writes to the
\* log file.
C8_FaultPinning ==
  [][ ErrorLog # << >>
        => /\ OPERATION_STATE = ERROR
           /\ OPERATION_STATE' = ERROR
           /\ \A c \in SensorCalls \cup LogWriteCalls : ~Called(c) ]_vars

\* what setup() is told: storage found, load cell tared.  Display.begin()
\* (line 139) and the thermistors report nothing to setup().
SubsystemsReady == sdPresent /\ ~tareTimeout

\* C9: setup() ends in READY_FOR_COUNTDOWN exactly when every subsystem
\* reported ready; otherwise, from the end of setup() on, the state is ERROR
\* with a non-empty ErrorLog, and every arm event leaves the sequencer
\* untouched.
C9_StartupOutcome ==
  [][ /\ (pc = "SetupCheck" /\ pc' = "loop")
        => (OPERATION_STATE' = READY_FOR_COUNTDOWN <=> SubsystemsReady)
      /\ (AfterSetup' /\ ~SubsystemsReady)
        => /\ OPERATION_STATE' = ERROR
           /\ ErrorLog' # << >>
           /\ (ctx' = "isr" => (UNCHANGED seqVars /\ io' = << >>)) ]_vars

\* storage was not found, setup() has returned, and an arm event has just
\* been delivered between two ticks
C9_Witness ==
  /\ AfterSetup
  /\ ~sdPresent
  /\ OPERATION_STATE = ERROR
  /\ ErrorLog # << >>
  /\ ctx = "isr"
  /\ pc = "stamp"

\* C10: a tick body starts only when at least one sampling interval has
\* passed since the baseline was taken, and the baseline it leaves is the
\* clock at the end of the body.
C10_SchedulerPolicy ==
  [][ /\ (ctx' = "main" /\ pc = "loop" /\ pc' = "DisplayRenderData")
        => IntervalElapsed(now - baselineAt)
      /\ (ctx' = "main" /\ pc = "stamp" /\ pc' = "loop")
        => MainLoopPrev' = millis ]_vars

\* C11: with the main program running and the clock advancing, COUNTDOWN
\* leads to TEST_ACTIVE and TEST_ACTIVE leads to POST_TEST, whatever the
\* lateness of the ticks.
C11_Progress ==
  /\ (OPERATION_STATE = COUNTDOWN) ~> (OPERATION_STATE = TEST_ACTIVE)
  /\ (OPERATION_STATE = TEST_ACTIVE) ~> (OPERATION_STATE = POST_TEST)

\* the test was ended by a tick that came late: the elapsed test time it
\* read was already above the limit
C11_Witness ==
  /\ OPERATION_STATE = POST_TEST
  /\ TestDuration > DurationLimit
  /\ TestDuration < MillisModulus
  /\ Countdown = TestDuration + DisplayOffsetSeconds * MillisPerSecond

\* C12: CountdownActivatedTime is written only by the interrupt handler
\* running in READY_FOR_COUNTDOWN, only while it still holds its initial
\* value (once per armed cycle), and a handler run that ends in ERROR
\* because the log file could not be opened has not written it.
C12_StartTimeDiscipline ==
  [][ /\ CountdownActivatedTime' # CountdownActivatedTime
        => /\ ctx' = "isr"
           /\ OPERATION_STATE = READY_FOR_COUNTDOWN
           /\ CountdownActivatedTime = InitialTimestamp
      /\ (ctx' = "isr" /\ OPERATION_STATE' = ERROR
            /\ OPERATION_STATE = READY_FOR_COUNTDOWN)
        => CountdownActivatedTime' = InitialTimestamp ]_vars

\* C13: the display is drawn after the switch of its tick has run, and at
\* the end of a tick it shows the force sample the tick left and any state
\* the tick body entered.
C13_RenderAfterEvaluation ==
  [][ /\ Called("Display.render") => dispatched # "none"
      /\ (ctx' = "main" /\ pc = "stamp")
        => /\ displayed # << >>
           /\ displayed[2] = LoadCellForceData
           /\ OPERATION_STATE \in {TEST_ACTIVE, POST_TEST}
                => displayed[1] = OPERATION_STATE ]_vars

\* the states whose case appends a telemetry record
TelemetryStates == {COUNTDOWN, TEST_ACTIVE}

\* C14: a tick goes through LogTestData exactly when the state it dispatched
\* is COUNTDOWN or TEST_ACTIVE; the main program appends a record in
\* LogTestData and nowhere else, and only while the log file is open.
C14_TelemetryGating ==
  [][ ctx' = "main"
        => /\ pc = "GetLoadCellData"
             => (pc' = "LogTestData" <=> dispatched \in TelemetryStates)
           /\ Called("File.printf") <=> pc = "LogTestData"
           /\ pc = "LogTestData"
             => (dispatched \in TelemetryStates /\ fileOpen) ]_vars

\* a record has just been appended by a tick dispatched in TEST_ACTIVE
C14_Witness ==
  /\ pc = "Detect"
  /\ dispatched = TEST_ACTIVE
  /\ ctx = "main"
  /\ io = << "millis", "File.printf", "File.sync" >>
  /\ fileOpen

\* C15: in a tick dispatched in TEST_ACTIVE whose load-cell read brought no
\* new value, the stored force keeps its value, the tick appends no record,
\* and it goes on to the evaluation of the test duration.
C15_StaleSampleNotLogged ==
  [][ (ctx' = "main" /\ dispatched = TEST_ACTIVE)
        => /\ (pc = "GetLoadCellData" /\ ~fresh')
             => /\ LoadCellForceData' = LoadCellForceData
                /\ pc' \in {"LogTestData", "Detect"}
           /\ (pc = "LogTestData" /\ ~fresh)
             => /\ ~Called("File.printf")
                /\ pc' = "Detect" ]_vars

\* C16: an evaluation that reads the clock below the stored start time
\* yields an elapsed value of 0 and takes no transition, for the countdown
\* and for the test alike.
C16_ElapsedClamped ==
  [][ (ctx' = "main" /\ pc = "Detect")
        => /\ ( /\ dispatched = COUNTDOWN
                /\ OPERATION_STATE = COUNTDOWN
                /\ millis < CountdownActivatedTime )
             => (Countdown' = 0 /\ pc' = "stamp")
           /\ ( /\ dispatched = TEST_ACTIVE
                /\ OPERATION_STATE = TEST_ACTIVE
                /\ millis < TestActivatedTime )
             => (TestDuration' = 0 /\ pc' = "stamp") ]_vars

\* C17: from the start of a tick to its end OPERATION_STATE changes at most
\* once, the changes made by the interrupt handler during the tick
\* counted.
C17_OneTransitionPerTick == tickTransitions <= 1

\* C18: no step leaves the state POST_TEST with the relay pin still at the
\* engaged level, and the log file is closed only with the relay pin
\* already at the disengaged level.
C18_RelayOffBeforePostTest ==
  [][ /\ OPERATION_STATE' = POST_TEST => relayPin' = RelayLevel(FALSE)
      /\ Called("File.close") => relayPin = RelayLevel(FALSE) ]_vars

\* C19: whenever the handler is in the name search of CreateLogFile some
\* name is still free, so the search can end; and the step that ends the
\* handler leaves COUNTDOWN with the file open, or ERROR with one more
\* reason in ErrorLog and no file open.
C19_ArmTerminates ==
  [][ /\ isrPc' = "CreateLogFile" => FileNumbers \ existing' # {}
      /\ (isrPc = "CreateLogFile" /\ isrPc' = "idle")
        => \/ /\ fileOpen'
              /\ OPERATION_STATE' = COUNTDOWN
              /\ ErrorLog' = ErrorLog
           \/ /\ ~fileOpen'
              /\ OPERATION_STATE' = ERROR
              /\ Len(ErrorLog') = Len(ErrorLog) + 1 ]_vars

\* C20: every step that writes to the log file (File.printf, File.sync), in
\* the handler or in a tick, leaves the log file open: the write follows a
\* successful open and precedes the close.
C20_WritesNeedOpenStream ==
  [][ (\E c \in LogWriteCalls : Called(c)) => fileOpen' ]_vars

====
